---- MODULE Spec2Model ----
(***************************************************************************)
(* LRU cache of src/LRU.cpp: InMemoryCacheStorage (an unordered_map with a *)
(* capacity), LRUEvictionStrategy (a list plus a membership set) and the   *)
(* Cache facade that drives both.  Keys and values are std::string; the    *)
(* empty string "" is what InMemoryCacheStorage::get and                   *)
(* LRUEvictionStrategy::evictKey return when they have nothing to return.  *)
(***************************************************************************)
EXTENDS Integers, Sequences, FiniteSets, TLC

VARIABLES
    map,              \* InMemoryCacheStorage::map, a function on the stored keys
    capacity,         \* InMemoryCacheStorage::capacity (int)
    accessOrderList,  \* LRUEvictionStrategy::accessOrderList, front first
    existingKey,      \* LRUEvictionStrategy::existingKey
    result,           \* the string returned by the latest Cache::get
    last,             \* the latest Cache call: [op, key, value, removed]
    touchOrder,       \* history: stored keys, oldest latest-touch first
    script,           \* the call sequence of the demonstration run
    pc                \* position in script (0 when no script is run)

vars == <<map, capacity, accessOrderList, existingKey, result, last,
          touchOrder, script, pc>>

----------------------------------------------------------------------------
(* Bounds *)

NumKeys == 2
NumValues == 2
MaxCapacity == 2

Keys == {""} \cup {ToString(i) : i \in 1..NumKeys}
Values == {""} \cup {"v" \o ToString(i) : i \in 1..NumValues}
Capacities == {-1} \cup (0..MaxCapacity)

EmptyMap == [x \in {} |-> ""]

Without(seq, key) == SelectSeq(seq, LAMBDA x : x # key)

SeqSet(seq) == {seq[i] : i \in 1..Len(seq)}

----------------------------------------------------------------------------
(* InMemoryCacheStorage *)

\* A lookup by map[key] alone, which inserts the key it does not find.
StorageGetInserting(m, key) ==
    IF key \in DOMAIN m
    THEN [ret |-> m[key], map |-> m]
    ELSE [ret |-> "",
          map |-> [x \in (DOMAIN m) \cup {key} |->
                       IF x = key THEN "" ELSE m[x]]]

\* map.count(key) ? map[key] : "" ; the map after the call is returned too,
\* because unordered_map::operator[] inserts a key it does not find.
StorageGet(m, key) ==
    IF key \in DOMAIN m
    THEN [ret |-> m[key], map |-> m]
    ELSE [ret |-> "", map |-> m]

\* map.insert({key, value}), which keeps the value of a stored key.
StoragePutInsertOnly(m, key, value) ==
    [x \in (DOMAIN m) \cup {key} |-> IF x \in DOMAIN m THEN m[x] ELSE value]

\* map[key] = value
StoragePut(m, key, value) ==
    [x \in (DOMAIN m) \cup {key} |-> IF x = key THEN value ELSE m[x]]

\* map.erase(key)
StorageRemove(m, key) ==
    [x \in (DOMAIN m) \ {key} |-> m[x]]

\* size_t >= int: the int is converted to size_t, so a negative capacity
\* becomes 2^64 + cap, which no size of this model reaches.
SizeGeqInt(size, cap) ==
    IF cap < 0 THEN FALSE ELSE size >= cap

\* map.size() > capacity
isFullStrict(m, cap) == Cardinality(DOMAIN m) > cap

\* map.size() >= capacity
isFull(m, cap) == SizeGeqInt(Cardinality(DOMAIN m), cap)

----------------------------------------------------------------------------
(* LRUEvictionStrategy *)

\* The front key is returned and untracked in the set, but never popped.
evictKeyNoPop(list, set) ==
    IF list = <<>>
    THEN [ret |-> "", accessOrderList |-> list, existingKey |-> set]
    ELSE [ret |-> Head(list),
          accessOrderList |-> list,
          existingKey |-> set \ {Head(list)}]

\* Eviction from the back of the list.
evictKeyBack(list, set) ==
    IF list = <<>>
    THEN [ret |-> "", accessOrderList |-> list, existingKey |-> set]
    ELSE [ret |-> list[Len(list)],
          accessOrderList |-> SubSeq(list, 1, Len(list) - 1),
          existingKey |-> set \ {list[Len(list)]}]

evictKey(list, set) ==
    IF list = <<>>
    THEN [ret |-> "", accessOrderList |-> list, existingKey |-> set]
    ELSE [ret |-> Head(list),
          accessOrderList |-> Tail(list),
          existingKey |-> set \ {Head(list)}]

\* push_back without unlinking a tracked key first.
keyAccessedNoCheck(list, set, key) ==
    [accessOrderList |-> Append(list, key),
     existingKey |-> set \cup {key}]

\* A tracked key has the front node popped instead of its own.
keyAccessedPopFront(list, set, key) ==
    LET removed == IF key \in set THEN Tail(list) ELSE list
    IN  [accessOrderList |-> Append(removed, key),
         existingKey |-> set \cup {key}]

\* A tracked key keeps its position.
keyAccessedNoMove(list, set, key) ==
    [accessOrderList |-> IF key \in set THEN list ELSE Append(list, key),
     existingKey |-> set \cup {key}]

keyAccessed(list, set, key) ==
    LET removed == IF key \in set THEN Without(list, key) ELSE list
    IN  [accessOrderList |-> Append(removed, key),
         existingKey |-> set \cup {key}]

\* The list nodes keyAccessed visits to unlink a tracked key:
\* std::list::remove(key) compares every node of the list with key.
keyAccessedVisits(list, set, key) ==
    IF key \in set THEN Len(list) ELSE 0

----------------------------------------------------------------------------
(* Cache *)

\* A get that records the access whether or not the key was found.
CacheGetAlwaysTouch(m, list, set, key) ==
    LET g  == StorageGet(m, key)
        ka == keyAccessed(list, set, key)
    IN  [ret |-> g.ret, map |-> g.map,
         accessOrderList |-> ka.accessOrderList,
         existingKey |-> ka.existingKey]

\* Cache::get: the state after the call and the returned string.
CacheGet(m, list, set, key) ==
    LET g  == StorageGet(m, key)
        ka == keyAccessed(list, set, key)
    IN  IF g.ret # ""
        THEN [ret |-> g.ret, map |-> g.map,
              accessOrderList |-> ka.accessOrderList,
              existingKey |-> ka.existingKey]
        ELSE [ret |-> g.ret, map |-> g.map,
              accessOrderList |-> list, existingKey |-> set]

\* A put that evicts when isFull() || get(key).empty().
CachePutEagerEvict(m, cap, list, set, key, value) ==
    LET full  == isFull(m, cap)
        g     == StorageGet(m, key)
        m0    == IF full THEN m ELSE g.map
        evict == full \/ g.ret = ""
        ev    == evictKey(list, set)
        m1    == IF evict THEN StorageRemove(m0, ev.ret) ELSE m0
        l1    == IF evict THEN ev.accessOrderList ELSE list
        s1    == IF evict THEN ev.existingKey ELSE set
        ka    == keyAccessed(l1, s1, key)
    IN  [map |-> StoragePut(m1, key, value),
         accessOrderList |-> ka.accessOrderList,
         existingKey |-> ka.existingKey]

\* Cache::put: the state after the call.  storage->get is only evaluated
\* when storage->isFull() is true (short-circuit &&).
CachePut(m, cap, list, set, key, value) ==
    LET full  == isFull(m, cap)
        g     == StorageGet(m, key)
        m0    == IF full THEN g.map ELSE m
        evict == full /\ g.ret = ""
        ev    == evictKey(list, set)
        m1    == IF evict THEN StorageRemove(m0, ev.ret) ELSE m0
        l1    == IF evict THEN ev.accessOrderList ELSE list
        s1    == IF evict THEN ev.existingKey ELSE set
        ka    == keyAccessed(l1, s1, key)
    IN  [map |-> StoragePut(m1, key, value),
         accessOrderList |-> ka.accessOrderList,
         existingKey |-> ka.existingKey]

\* History: the order of the latest touches (a Cache::put of the key, or a
\* Cache::get of it while it is stored) of the keys that are still stored.
Touched(order, key, stored) ==
    SelectSeq(Append(Without(order, key), key), LAMBDA x : x \in stored)

Kept(order, stored) == SelectSeq(order, LAMBDA x : x \in stored)

----------------------------------------------------------------------------
(* Operations *)

DoPut(key, value) ==
    LET p == CachePut(map, capacity, accessOrderList, existingKey, key, value)
    IN  /\ map' = p.map
        /\ accessOrderList' = p.accessOrderList
        /\ existingKey' = p.existingKey
        /\ touchOrder' = Touched(touchOrder, key, DOMAIN p.map)
        /\ last' = [op |-> "put", key |-> key, value |-> value,
                     removed |-> (DOMAIN map) \ (DOMAIN p.map)]
        /\ UNCHANGED <<capacity, result>>

DoGet(key) ==
    LET g == CacheGet(map, accessOrderList, existingKey, key)
    IN  /\ map' = g.map
        /\ accessOrderList' = g.accessOrderList
        /\ existingKey' = g.existingKey
        /\ result' = g.ret
        /\ touchOrder' = IF key \in DOMAIN map
                         THEN Touched(touchOrder, key, DOMAIN g.map)
                         ELSE Kept(touchOrder, DOMAIN g.map)
        /\ last' = [op |-> "get", key |-> key, value |-> "",
                     removed |-> (DOMAIN map) \ (DOMAIN g.map)]
        /\ UNCHANGED capacity

Fresh ==
    /\ map = EmptyMap
    /\ accessOrderList = <<>>
    /\ existingKey = {}
    /\ result = ""
    /\ last = [op |-> "new", key |-> "", value |-> "", removed |-> {}]
    /\ touchOrder = <<>>

Init ==
    /\ Fresh
    /\ capacity \in Capacities
    /\ script = <<>>
    /\ pc = 0

Put == \E key \in Keys, value \in Values :
           DoPut(key, value) /\ UNCHANGED <<script, pc>>

Get == \E key \in Keys :
           DoGet(key) /\ UNCHANGED <<script, pc>>

Next == Put \/ Get

Spec == Init /\ [][Next]_vars

----------------------------------------------------------------------------
(* The demonstration run of main, continued by get("3") and put("5", "E"), *)
(* with the five key names as parameters.                                  *)

NumScenarioKeys == 5
MainCapacity == 3

ScenarioKeys == {ToString(i) : i \in 1..NumScenarioKeys}

PutCall(key, value) == [op |-> "put", key |-> key, value |-> value]
GetCall(key) == [op |-> "get", key |-> key, value |-> ""]

Scenario(a, b, c, d, e) ==
    << PutCall(a, "Apple"), PutCall(b, "Banana"), PutCall(c, "Cherry"),
       PutCall(d, "Date"), GetCall(a), GetCall(b),
       GetCall(c), PutCall(e, "E") >>

MainScript == Scenario("1", "2", "3", "4", "5")

MainInit ==
    /\ Fresh
    /\ capacity = MainCapacity
    /\ script \in {Scenario(a, b, c, d, e) : a \in ScenarioKeys,
                     b \in ScenarioKeys, c \in ScenarioKeys,
                     d \in ScenarioKeys, e \in ScenarioKeys}
    /\ pc = 1

MainPut ==
    /\ pc <= Len(script)
    /\ script[pc].op = "put"
    /\ DoPut(script[pc].key, script[pc].value)
    /\ pc' = pc + 1
    /\ UNCHANGED script

MainGet ==
    /\ pc <= Len(script)
    /\ script[pc].op = "get"
    /\ DoGet(script[pc].key)
    /\ pc' = pc + 1
    /\ UNCHANGED script

MainNext == MainPut \/ MainGet

SpecMain == MainInit /\ [][MainNext]_vars

----------------------------------------------------------------------------
(* Properties *)

StoredKeys == DOMAIN map
StoredKeysAfter == DOMAIN map'

Back(seq) == seq[Len(seq)]

\* The step is a Cache::put / Cache::get call (every call records itself).
IsPutStep == last'.op = "put"
IsGetStep == last'.op = "get"

\* C1: with capacity >= 1 the storage never holds more than capacity keys.
C1_CapacityInvariant ==
    capacity >= 1 => Cardinality(StoredKeys) <= capacity

C1_Witness ==
    /\ capacity >= 1
    /\ Cardinality(StoredKeys) = capacity
    /\ last.op = "put"
    /\ last.removed # {}

\* C2: a put of an absent key into a storage that holds exactly capacity
\* (>= 1) keys removes exactly the key whose latest touch is the oldest, and
\* every other key stays with its value.
C2_EvictionCorrectness ==
    [][ ( /\ capacity >= 1
          /\ Cardinality(StoredKeys) = capacity
          /\ IsPutStep
          /\ last'.key \notin StoredKeys )
        => ( /\ StoredKeys \ StoredKeysAfter = {Head(touchOrder)}
             /\ \A x \in StoredKeys \ {Head(touchOrder)} :
                    x \in StoredKeysAfter /\ map'[x] = map[x] ) ]_vars

\* C3: a put of a stored key removes no key, keeps the key set, stores the
\* new value and makes the key the most recently used one.
C3_OverwriteDoesNotEvict ==
    [][ ( IsPutStep /\ last'.key \in StoredKeys )
        => ( /\ StoredKeysAfter = StoredKeys
             /\ map'[last'.key] = last'.value
             /\ accessOrderList' # <<>>
             /\ Back(accessOrderList') = last'.key ) ]_vars

\* C4: a get of a stored key moves it to the most recently used end; if it
\* was the least recently used of two or more keys, the next victim changes.
C4_RecencyUpdateOnRead ==
    [][ ( IsGetStep /\ last'.key \in StoredKeys )
        => ( /\ accessOrderList' # <<>>
             /\ Back(accessOrderList') = last'.key
             /\ ( ( /\ accessOrderList # <<>>
                    /\ Head(accessOrderList) = last'.key
                    /\ Cardinality(StoredKeys) >= 2 )
                  => Head(accessOrderList') # Head(accessOrderList) ) ) ]_vars

\* C5: the recency list holds exactly the stored keys, each once, the
\* membership set is the set of listed keys, and the list runs from the
\* least recently touched key to the most recently touched one.
C5_RecencyStorageSync ==
    /\ SeqSet(accessOrderList) = StoredKeys
    /\ Len(accessOrderList) = Cardinality(StoredKeys)
    /\ existingKey = SeqSet(accessOrderList)
    /\ accessOrderList = touchOrder

\* C6: a get of a key that is not stored returns "" and changes neither the
\* mapping nor the recency structure; removing a key that is not stored
\* leaves the mapping as it is.
C6_IdempotentAbsence ==
    [][ /\ ( IsGetStep /\ last'.key \notin StoredKeys )
           => ( /\ result' = ""
                /\ map' = map
                /\ accessOrderList' = accessOrderList
                /\ existingKey' = existingKey )
        /\ \A k \in Keys \ StoredKeys : StorageRemove(map, k) = map ]_vars

C6_Witness ==
    /\ last.op = "get"
    /\ last.key \notin StoredKeys
    /\ result = ""
    /\ StoredKeys # {}

\* C7: in the demonstration run the fourth put evicts key "1", get("1")
\* returns "" and get("2") returns "Banana".
C7_ScenarioFirstPart ==
    script = MainScript =>
        /\ (pc = 5 => last.removed = {"1"})
        /\ (pc = 6 => result = "" /\ "1" \notin StoredKeys)
        /\ (pc = 7 => result = "Banana")

C7_Witness ==
    /\ script = MainScript
    /\ pc = 7
    /\ result = "Banana"
    /\ StoredKeys = {"2", "3", "4"}

\* C8 as stated: get("3") returns "Cherry" and put("5", "E") evicts key "2",
\* leaving "3", "4" and "5".
C8_ScenarioEvictsKey2 ==
    script = MainScript =>
        /\ (pc = 8 => result = "Cherry")
        /\ (pc = 9 => last.removed = {"2"} /\ StoredKeys = {"3", "4", "5"})

\* C8 amended: get("3") returns "Cherry" and put("5", "E") evicts key "4"
\* (get("2") and get("3") promoted both other keys), leaving "2", "3", "5".
C8_ScenarioEvictsKey4 ==
    script = MainScript =>
        /\ (pc = 8 => result = "Cherry")
        /\ (pc = 9 => last.removed = {"4"} /\ StoredKeys = {"2", "3", "5"})

C8_Witness ==
    /\ script = MainScript
    /\ pc = 9
    /\ last.op = "put"
    /\ "5" \in StoredKeys

\* C9: Cache::get reports absent ("") exactly when the key is not stored.
C9_AbsentIffNotStored ==
    last.op = "get" => ((result = "") <=> (last.key \notin StoredKeys))

\* C10: with capacity 0 the storage and the recency list stay empty and
\* every get reports absent.
C10_CapacityZeroRetainsNothing ==
    capacity = 0 =>
        /\ map = EmptyMap
        /\ accessOrderList = <<>>
        /\ (last.op = "get" => result = "")

\* C11: with capacity >= 1, whenever the storage is full the policy tracks
\* at least one key, so evictKey takes its non-empty branch and the key it
\* returns (the front of the list) is a stored key.
C11_FullImpliesVictim ==
    (capacity >= 1 /\ isFull(map, capacity))
        => /\ accessOrderList # <<>>
           /\ existingKey # {}
           /\ evictKey(accessOrderList, existingKey).ret = Head(accessOrderList)
           /\ evictKey(accessOrderList, existingKey).ret \in StoredKeys

C11_Witness ==
    /\ capacity >= 1
    /\ isFull(map, capacity)
    /\ accessOrderList # <<>>
    /\ last.op = "put"
    /\ last.removed # {}
    /\ Head(accessOrderList) \in StoredKeys

\* C12: for every capacity, negative ones included, isFull is true exactly
\* when the number of stored keys is >= capacity as integers.
C12_IsFullIffSizeGeqCapacity ==
    isFull(map, capacity) <=> (Cardinality(StoredKeys) >= capacity)

\* C13: no Cache::put or Cache::get is ever executed on a cache whose
\* capacity is 0 or negative (construction would have been rejected).
C13_NonPositiveCapacityRejected ==
    capacity <= 0 => last.op = "new"

\* C14: when Cache::get hits and calls keyAccessed on a tracked key, the
\* number of list nodes visited is the same as when that key is the only
\* tracked key, i.e. it does not depend on how many keys are tracked.
C14_ConstantTimeRecencyUpdate ==
    [][ ( IsGetStep /\ result' # "" /\ last'.key \in existingKey )
        => keyAccessedVisits(accessOrderList, existingKey, last'.key)
             = keyAccessedVisits(<<last'.key>>, {last'.key}, last'.key) ]_vars

\* C15: with capacity >= 1, right after put(k, v) the key k is stored with
\* value v and is the last element of the recency list, and a get(k) issued
\* next returns v; a stored value changes only through a put of its key, and
\* a get of a stored key returns the stored value.
C15_PutPostcondition ==
    [][ capacity >= 1 =>
          /\ IsPutStep =>
                /\ last'.key \in StoredKeysAfter
                /\ map'[last'.key] = last'.value
                /\ accessOrderList' # <<>>
                /\ Back(accessOrderList') = last'.key
                /\ CacheGet(map', accessOrderList', existingKey',
                            last'.key).ret = last'.value
          /\ (IsGetStep /\ last.op = "put" /\ last.key = last'.key)
                => result' = last.value
          /\ \A k \in StoredKeys \cap StoredKeysAfter :
                map'[k] # map[k] => (IsPutStep /\ last'.key = k)
          /\ (IsGetStep /\ last'.key \in StoredKeys)
                => result' = map[last'.key] ]_vars

C15_Witness ==
    /\ capacity >= 1
    /\ last.op = "put"
    /\ last.key \in StoredKeys
    /\ map[last.key] = last.value
    /\ last.value # ""
    /\ Len(accessOrderList) >= 2
    /\ Back(accessOrderList) = last.key

\* C16: a put into a storage that is not full removes no key (the size grows
\* by one for an absent key and stays for a stored one), and no put removes
\* more than one key.
C16_EvictionOnlyUnderPressure ==
    [][ IsPutStep =>
          /\ ~isFull(map, capacity) =>
                /\ StoredKeys \ StoredKeysAfter = {}
                /\ Cardinality(StoredKeysAfter)
                     = Cardinality(StoredKeys)
                         + (IF last'.key \in StoredKeys THEN 0 ELSE 1)
          /\ Cardinality(StoredKeys \ StoredKeysAfter) <= 1 ]_vars

C16_Witness ==
    /\ capacity = 2
    /\ Cardinality(StoredKeys) = 2
    /\ last.op = "put"
    /\ last.removed = {}
    /\ Head(accessOrderList) # last.key

Occurrences(seq, key) == Cardinality({i \in 1..Len(seq) : seq[i] = key})

\* C17: in every policy state and for every key k, after keyAccessed(k) the
\* key occurs exactly once in the list and is its last element, the other
\* keys keep their relative order, the tracked count grows by one for an
\* untracked k and stays for a tracked one, and a second keyAccessed(k)
\* changes nothing.
C17_KeyAccessedSemantics ==
    \A k \in Keys :
        LET ka    == keyAccessed(accessOrderList, existingKey, k)
            grown == IF k \in existingKey THEN 0 ELSE 1
        IN  /\ Occurrences(ka.accessOrderList, k) = 1
            /\ Back(ka.accessOrderList) = k
            /\ Without(ka.accessOrderList, k) = Without(accessOrderList, k)
            /\ Cardinality(ka.existingKey) = Cardinality(existingKey) + grown
            /\ Len(ka.accessOrderList) = Len(accessOrderList) + grown
            /\ keyAccessed(ka.accessOrderList, ka.existingKey, k) = ka

C17_Witness ==
    /\ last.op = "get"
    /\ result # ""
    /\ Len(accessOrderList) >= 2
    /\ Back(accessOrderList) = last.key
    /\ Occurrences(accessOrderList, last.key) = 1

\* C18: when at least one key is tracked, evictKey returns the front key of
\* the list and removes exactly that key from the list and from the set,
\* keeping the order of the rest; when no key is tracked it returns "" and
\* leaves the policy state as it is.
C18_EvictKeySemantics ==
    LET ev == evictKey(accessOrderList, existingKey)
    IN  IF existingKey # {}
        THEN /\ ev.ret = accessOrderList[1]
             /\ ev.accessOrderList = Without(accessOrderList, ev.ret)
             /\ Len(ev.accessOrderList) = Len(accessOrderList) - 1
             /\ ev.existingKey = existingKey \ {ev.ret}
             /\ SeqSet(ev.accessOrderList) = ev.existingKey
        ELSE /\ ev.ret = ""
             /\ ev.accessOrderList = accessOrderList
             /\ ev.existingKey = existingKey

C18_Witness ==
    /\ last.op = "put"
    /\ last.removed # {}
    /\ last.removed \cap existingKey = {}
    /\ last.removed \cap SeqSet(accessOrderList) = {}
    /\ Len(accessOrderList) >= 2

\* C19: a get, hit or miss, leaves the storage mapping as it is, and the only
\* change it makes to the recency list is the position of its key: the same
\* keys are listed and the other keys keep their relative order.
C19_FrameOfGet ==
    [][ IsGetStep =>
          /\ map' = map
          /\ SeqSet(accessOrderList') = SeqSet(accessOrderList)
          /\ Len(accessOrderList') = Len(accessOrderList)
          /\ Without(accessOrderList', last'.key)
               = Without(accessOrderList, last'.key) ]_vars

C19_Witness ==
    /\ last.op = "get"
    /\ last.key \in StoredKeys
    /\ result = map[last.key]
    /\ result # ""
    /\ Cardinality(StoredKeys) >= 2
    /\ Head(accessOrderList) # last.key

====
